---- MODULE Spec2Model ----
(***************************************************************************)
(* chemlab/io/handlers/gro.py: the GROMACS .gro reader (parse_gro_lines)   *)
(* and writer (write_gro), with the GromacsIO handler that drives them.    *)
(*                                                                         *)
(* Text is modelled character by character: a Python str is a sequence of  *)
(* one-character strings, so that len(l), l[a:b], l.split(), int(), float()*)
(* and str.format() are computed and not assumed.  A float is an integer   *)
(* count of 1/FloatScale.                                                  *)
(***************************************************************************)
EXTENDS Integers, Sequences, FiniteSets, TLC

\* ------------------------------------------------------------------ bounds
MaxAtoms == 3        \* atom records in a caller-supplied list of lines
MaxTail == 3         \* lines that follow the atom records in such a list
MaxMol == 2          \* molecules of a system handed to write_gro
MaxMolAtoms == 2     \* atoms per molecule of such a system
MaxCalls == 2        \* calls of parse_gro_lines on one list object
MaxMissing == 2      \* export entries such a system lacks
BigCount == 100001   \* atoms (or molecules) of the long writer runs

\* ---------------------------------------------------------- program constants
SerialMod == 99999
PlainLen == 45
VelLen == 69
FloatScale == 10^6

\* None where an array is expected, and a local name not yet bound
None == <<>>
Unbound == <<>>
NoSystem == [kind |-> "none"]
NoMessage == "None"

\* ------------------------------------------------------------- Python str
NL == "\n"
Whitespace == {" ", NL, "\t"}
DigitChars == <<"0", "1", "2", "3", "4", "5", "6", "7", "8", "9">>

Spaces(n) == [k \in 1..n |-> " "]

Max2(a, b) == IF a >= b THEN a ELSE b

Abs(n) == IF n < 0 THEN -n ELSE n

\* l[a:b], 0-based and half-open, clipped to the string like Python's slice
Slice(l, a, b) == SubSeq(l, a + 1, IF b > Len(l) THEN Len(l) ELSE b)

DigitVal(c) == CHOOSE d \in 0..9 : DigitChars[d + 1] = c

IsDigit(c) == \E d \in 0..9 : DigitChars[d + 1] = c

RECURSIVE NatStr(_)
NatStr(n) ==
    IF n < 10 THEN <<DigitChars[n + 1]>>
    ELSE NatStr(n \div 10) \o <<DigitChars[(n % 10) + 1]>>

\* '{}'.format(n) for an int
IntStr(n) == IF n < 0 THEN <<"-">> \o NatStr(-n) ELSE NatStr(n)

\* '{:>w}'
RJust(s, w) == Spaces(Max2(0, w - Len(s))) \o s

\* '{:<w}'
LJust(s, w) == s \o Spaces(Max2(0, w - Len(s)))

RECURSIVE ZeroPad(_, _)
ZeroPad(s, w) == IF Len(s) >= w THEN s ELSE ZeroPad(<<"0">> \o s, w)

\* The float v (in 1/FloatScale) rounded to dec decimals, in 1/10^dec.  The
\* values used are either not ties or dyadic ties, where the correctly
\* rounded conversion of '%.<dec>f' rounds half to even.
RoundTo(v, dec) ==
    LET unit == FloatScale \div (10 ^ dec)
        q == Abs(v) \div unit
        r == Abs(v) % unit
        up == (2 * r > unit) \/ (2 * r = unit /\ q % 2 = 1)
        m == IF up THEN q + 1 ELSE q
    IN  IF v < 0 THEN -m ELSE m

\* '{:.<dec>f}'.format(v): the sign is kept when a negative value rounds to 0
FixedStr(v, dec) ==
    LET m == Abs(RoundTo(v, dec))
        ip == m \div (10 ^ dec)
        fp == m % (10 ^ dec)
    IN  (IF v < 0 THEN <<"-">> ELSE <<>>) \o NatStr(ip) \o <<".">>
            \o ZeroPad(NatStr(fp), dec)

\* '{:>w.<dec>f}'
FloatField(v, w, dec) == RJust(FixedStr(v, dec), w)

\* s.strip()
RECURSIVE LStrip(_)
LStrip(s) == IF s # <<>> /\ Head(s) \in Whitespace THEN LStrip(Tail(s)) ELSE s

RECURSIVE RStrip(_)
RStrip(s) ==
    IF s # <<>> /\ s[Len(s)] \in Whitespace THEN RStrip(SubSeq(s, 1, Len(s) - 1))
    ELSE s

Strip(s) == RStrip(LStrip(s))

\* s.split(): the maximal runs of non-whitespace characters
RECURSIVE SplitFrom(_, _, _)
SplitFrom(s, cur, acc) ==
    IF s = <<>> THEN (IF cur = <<>> THEN acc ELSE Append(acc, cur))
    ELSE IF Head(s) \in Whitespace
         THEN SplitFrom(Tail(s), <<>>, IF cur = <<>> THEN acc ELSE Append(acc, cur))
         ELSE SplitFrom(Tail(s), Append(cur, Head(s)), acc)

Split(s) == SplitFrom(s, <<>>, <<>>)

AllDigits(s) == s # <<>> /\ \A k \in 1..Len(s) : IsDigit(s[k])

RECURSIVE NatVal(_)
NatVal(s) ==
    IF s = <<>> THEN 0 ELSE NatVal(SubSeq(s, 1, Len(s) - 1)) * 10 + DigitVal(s[Len(s)])

Unsigned(s) == IF s # <<>> /\ Head(s) \in {"-", "+"} THEN Tail(s) ELSE s

Negative(s) == s # <<>> /\ Head(s) = "-"

\* int(s): surrounding whitespace, an optional sign, decimal digits
IntOk(s) == AllDigits(Unsigned(Strip(s)))

IntVal(s) ==
    LET t == Strip(s) IN IF Negative(t) THEN -NatVal(Unsigned(t)) ELSE NatVal(Unsigned(t))

\* float(s) for plain decimal notation d*[.d*] with at least one digit
DotPos(s) == IF \E k \in 1..Len(s) : s[k] = "."
             THEN CHOOSE k \in 1..Len(s) : s[k] = "." ELSE Len(s) + 1

FloatOk(s) ==
    LET u == Unsigned(Strip(s))
        ip == SubSeq(u, 1, DotPos(u) - 1)
        fp == SubSeq(u, DotPos(u) + 1, Len(u))
    IN  /\ ip \o fp # <<>>
        /\ \A k \in 1..Len(ip) : IsDigit(ip[k])
        /\ \A k \in 1..Len(fp) : IsDigit(fp[k])

RECURSIVE PadRight(_, _)
PadRight(s, w) == IF Len(s) >= w THEN SubSeq(s, 1, w) ELSE PadRight(s \o <<"0">>, w)

FloatVal(s) ==
    LET t == Strip(s)
        u == Unsigned(t)
        ip == SubSeq(u, 1, DotPos(u) - 1)
        fp == SubSeq(u, DotPos(u) + 1, Len(u))
        m == NatVal(ip) * FloatScale + NatVal(PadRight(fp, 6))
    IN  IF Negative(t) THEN -m ELSE m

\* ------------------------------------------------------------ data model
\* A Python dict with at most one key is a function on a set of keys.
EmptyDict == [k \in {} |-> <<>>]

Dict(key, val) == [k \in {key} |-> val]

HasKey(d, key) == key \in DOMAIN d

\* np.array([[a,0,0], [0,b,0], [0,0,c]])
Diag(a, b, c) == <<<<a, 0, 0>>, <<0, b, 0>>, <<0, 0, c>>>>

SOL == <<"S", "O", "L">>
NA == <<"N", "A">>
OW == <<"O", "W">>
HW1 == <<"H", "W", "1">>

\* gro_map.gro_to_cl, the table of atom labels; .get(g, "Unknown")
GroToCl(g) ==
    IF g = OW THEN "O" ELSE IF g = HW1 THEN "H" ELSE IF g = NA THEN "Na" ELSE "Unknown"

\* chemlab.core.molecule.make_formula: the symbols of one molecule, counted
MakeFormula(types) ==
    [t \in {types[k] : k \in 1..Len(types)} |->
        Cardinality({k \in 1..Len(types) : types[k] = t})]

\* System.from_arrays: the system made of the arrays it is given
FromArrays(r_array, mol_indices, type_array, atom_export_array, mol_export, mol_formula, box_vectors) ==
    [kind |-> "arrays",
     r_array |-> r_array,
     mol_indices |-> mol_indices,
     type_array |-> type_array,
     atom_export_array |-> atom_export_array,
     mol_export |-> mol_export,
     mol_formula |-> mol_formula,
     box_vectors |-> box_vectors]

\* A system of n_mol equal molecules of `per` equal atoms each, kept in closed
\* form: the arrays of the long runs are read through the accessors below.
UniformSystem(n_mol, per) ==
    [kind |-> "uniform", n_mol |-> n_mol, per |-> per,
     groname |-> SOL, grotype |-> OW, r |-> <<123400, 0, -33600>>,
     box_vectors |-> Diag(1000000, 1000000, 1000000)]

\* System.n_mol, System.n_atoms, System.mol_indices[i], System.mol_n_atoms[i],
\* System.mol_export[i], System.atom_export_array[k], System.r_array[k]
\* (i and k count from 0, as in the source)
NMol(s) == IF s.kind = "uniform" THEN s.n_mol ELSE Len(s.mol_indices)

NAtoms(s) == IF s.kind = "uniform" THEN s.n_mol * s.per ELSE Len(s.r_array)

MolIndex(s, i) == IF s.kind = "uniform" THEN i * s.per ELSE s.mol_indices[i + 1]

MolNAtoms(s, i) ==
    IF s.kind = "uniform" THEN s.per
    ELSE (IF i + 1 < Len(s.mol_indices) THEN s.mol_indices[i + 2] ELSE Len(s.r_array))
             - s.mol_indices[i + 1]

MolExport(s, i) ==
    IF s.kind = "uniform" THEN Dict("groname", s.groname) ELSE s.mol_export[i + 1]

AtomExport(s, k) ==
    IF s.kind = "uniform" THEN Dict("grotype", s.grotype) ELSE s.atom_export_array[k + 1]

RArray(s, k) == IF s.kind = "uniform" THEN s.r ELSE s.r_array[k + 1]

\* ------------------------------------------------- write_gro: the formats
\* 'Generated by chemlab'
TitleText ==
    <<"G", "e", "n", "e", "r", "a", "t", "e", "d", " ", "b", "y", " ",
      "c", "h", "e", "m", "l", "a", "b">>

\* '{:>5}'.format(sys.n_atoms)
CountText(n) == RJust(IntStr(n), 5)

\* the running atom number written as it is
SerialFieldUnwrapped(at_n) == RJust(IntStr(at_n), 5)

\* '{:>5}' of the running atom number
SerialField(at_n) == RJust(IntStr(at_n % SerialMod), 5)

\* '{:>5}{:<5}{:>5}{:>5}{:>8.3f}{:>8.3f}{:>8.3f}'
\*     .format(res_n, res_name, at_name, at_n%99999, x, y, z)
AtomText(res_n, res_name, at_name, at_n, r) ==
    RJust(IntStr(res_n), 5) \o LJust(res_name, 5) \o RJust(at_name, 5)
        \o SerialField(at_n)
        \o FloatField(r[1], 8, 3) \o FloatField(r[2], 8, 3) \o FloatField(r[3], 8, 3)

\* '{:>10.5f}{:>10.5f}{:>10.5f}'.format(box[0,0], box[1,1], box[2,2])
BoxText(bv) ==
    FloatField(bv[1][1], 10, 5) \o FloatField(bv[2][2], 10, 5)
        \o FloatField(bv[3][3], 10, 5)

\* [l + '\n' for l in lines]
WithNewlines(ls) == [k \in 1..Len(ls) |-> ls[k] \o <<NL>>]

\* ------------------------------------------- parse_gro_lines: one line
\* the layout without velocities alone
IsPlainAtomLine(l) == Len(l) = PlainLen

\* line_length == 45 or line_length == 69
IsAtomLine(l) == Len(l) = PlainLen \/ Len(l) = VelLen

\* the int() and float() conversions of an atom line all succeed
AtomFieldsOk(l) ==
    /\ IntOk(Slice(l, 0, 5))
    /\ IntOk(Slice(l, 15, 20))
    /\ FloatOk(Slice(l, 20, 28))
    /\ FloatOk(Slice(l, 28, 36))
    /\ FloatOk(Slice(l, 36, 44))
    /\ Len(l) = VelLen =>
          /\ FloatOk(Slice(l, 44, 52))
          /\ FloatOk(Slice(l, 52, 60))
          /\ FloatOk(Slice(l, 60, 68))

\* (molidx, moltyp, attyp, rx, ry, rz)
AtomRecord(l) ==
    <<IntVal(Slice(l, 0, 5)), Strip(Slice(l, 5, 10)), Strip(Slice(l, 10, 15)),
      FloatVal(Slice(l, 20, 28)), FloatVal(Slice(l, 28, 36)),
      FloatVal(Slice(l, 36, 44))>>

\* the first three fields taken, further ones dropped
BoxFieldsLenient(l) ==
    LET fields == Split(l)
    IN  Len(fields) >= 3 /\ \A k \in 1..3 : FloatOk(fields[k])

\* a, b, c = [float(f) for f in fields] succeeds
BoxFieldsOk(l) ==
    LET fields == Split(l)
    IN  Len(fields) = 3 /\ \A k \in 1..3 : FloatOk(fields[k])

BoxOf(l) ==
    LET fields == Split(l)
    IN  Diag(FloatVal(fields[1]), FloatVal(fields[2]), FloatVal(fields[3]))

\* ------------------------------------- parse_gro_lines: grouping, assembly
SeqSet(q) == {q[k] : k \in 1..Len(q)}

Min(S) == CHOOSE m \in S : \A n \in S : m <= n

RECURSIVE Sorted(_)
Sorted(S) == IF S = {} THEN <<>> ELSE <<Min(S)>> \o Sorted(S \ {Min(S)})

\* np.unique(a, return_index=True)[1]: for each distinct value of a, in
\* increasing order of the values, the 0-based index of its first occurrence
UniqueIndex(a) ==
    LET ids == Sorted(SeqSet(a))
    IN  [i \in 1..Len(ids) |-> Min({k \in 1..Len(a) : a[k] = ids[i]}) - 1]

Column(datalist, f) == [k \in 1..Len(datalist) |-> datalist[k][f]]

\* a[s:e] of an array
ArraySlice(a, s, e) == IF s >= e THEN <<>> ELSE Slice(a, s, e)

\* (s, e) of each turn of the formula loop
MolRanges(mol_indices, end) ==
    [i \in 1..Len(mol_indices) |->
        <<mol_indices[i],
          IF i + 1 <= Len(mol_indices) THEN mol_indices[i + 1] ELSE end>>]

\* the system parse_gro_lines builds from datalist and box_vectors
Assemble(datalist, bv) ==
    LET mol_indices == UniqueIndex(Column(datalist, 1))
        r_array == [k \in 1..Len(datalist) |->
                       <<datalist[k][4], datalist[k][5], datalist[k][6]>>]
        grotype_array == Column(datalist, 3)
        names == Column(datalist, 2)
        mol_export == [i \in 1..Len(mol_indices) |->
                          Dict("groname", names[mol_indices[i] + 1])]
        atom_export_array == [k \in 1..Len(datalist) |->
                                 Dict("grotype", grotype_array[k])]
        type_array == [k \in 1..Len(datalist) |-> GroToCl(grotype_array[k])]
        ranges == MolRanges(mol_indices, Len(r_array))
        mol_formula == [i \in 1..Len(mol_indices) |->
                           MakeFormula(ArraySlice(type_array, ranges[i][1],
                                                  ranges[i][2]))]
    IN  FromArrays(r_array, mol_indices, type_array, atom_export_array,
                   mol_export, mol_formula, bv)

\* ------------------------------------------------------------------ state
VARIABLES
    sys,          \* write_gro: the system to write (NoSystem: nothing to write)
    wpc,          \* write_gro: where the call stands
    wi,           \* write_gro: i of the molecule loop
    wj,           \* write_gro: j of the atom loop
    at_n,         \* write_gro: the running atom number
    res_name,     \* write_gro: groname of molecule i
    wlines,       \* write_gro: the list `lines`
    werr,         \* write_gro: the message of the exception raised
    file,         \* the lines of the destination file
    opened,       \* whether open(filename, 'w') has been called
    lines,        \* the list object handed to parse_gro_lines
    arg,          \* the value of that list when the running call began
    rpc,          \* parse_gro_lines: where the call stands
    it,           \* parse_gro_lines: position of `for l in lines`
    datalist,     \* parse_gro_lines: the records read
    box_vectors,  \* parse_gro_lines: Unbound until the box line is read
    results       \* the outcome of every call of parse_gro_lines so far

wvars == <<sys, wpc, wi, wj, at_n, res_name, wlines, werr, file, opened>>
rvars == <<lines, arg, rpc, it, datalist, box_vectors, results>>
vars == <<sys, wpc, wi, wj, at_n, res_name, wlines, werr, file, opened,
          lines, arg, rpc, it, datalist, box_vectors, results>>

\* what the destination holds before write_gro runs
OldFile == <<<<"o", "l", "d", NL>>>>

\* ----------------------------------------------------------- write_gro
\* lines.append(l); the long runs keep the newest element only
Appended(ls, l, keepAll) == IF keepAll THEN Append(ls, l) ELSE <<l>>

\* the texts of the three exceptions write_gro raises itself
GronameMessage == "Gromacs exporter need the residue name as groname"
GrotypeMessage == "Gromacs exporter needs the atom type as grotype"
BoxMessage == "Gromacs exporter need box_vector information"

WRaise(msg) ==
    /\ wpc' = "raised"
    /\ werr' = msg

\* write_gro opening its destination before it formats anything
WriteBeginOpening(keepAll) ==
    /\ wpc = "begin"
    /\ wlines' = Appended(Appended(<<>>, TitleText, keepAll),
                          CountText(NAtoms(sys)), keepAll)
    /\ at_n' = 0
    /\ wi' = 0
    /\ wpc' = "mol"
    /\ opened' = TRUE
    /\ file' = <<>>
    /\ UNCHANGED <<sys, wj, res_name, werr, rvars>>

\* lines 147-151
WriteBegin(keepAll) ==
    /\ wpc = "begin"
    /\ wlines' = Appended(Appended(<<>>, TitleText, keepAll),
                          CountText(NAtoms(sys)), keepAll)
    /\ at_n' = 0
    /\ wi' = 0
    /\ wpc' = "mol"
    /\ UNCHANGED <<sys, wj, res_name, werr, file, opened, rvars>>

\* lines 153-159: one turn of the molecule loop, up to the atom loop
WriteMolecule ==
    /\ wpc = "mol"
    /\ wi < NMol(sys)
    /\ IF ~HasKey(MolExport(sys, wi), "groname")
       THEN /\ WRaise(GronameMessage)
            /\ UNCHANGED <<wi, wj, res_name>>
       ELSE /\ res_name' = MolExport(sys, wi)["groname"]
            /\ wj' = 0
            /\ IF MolNAtoms(sys, wi) = 0
               THEN wi' = wi + 1 /\ wpc' = "mol"
               ELSE wi' = wi /\ wpc' = "atom"
            /\ werr' = werr
    /\ UNCHANGED <<sys, at_n, wlines, file, opened, rvars>>

\* lines 161-173: one turn of the atom loop
WriteAtomLine(keepAll) ==
    /\ wpc = "atom"
    /\ wj < MolNAtoms(sys, wi)
    /\ LET offset == MolIndex(sys, wi)
       IN  IF ~HasKey(AtomExport(sys, offset + wj), "grotype")
           THEN /\ WRaise(GrotypeMessage)
                /\ UNCHANGED <<wi, wj, at_n, wlines>>
           ELSE /\ at_n' = at_n + 1
                /\ wlines' = Appended(wlines,
                                 AtomText(wi + 1, res_name,
                                          AtomExport(sys, offset + wj)["grotype"],
                                          at_n + 1, RArray(sys, offset + wj)),
                                 keepAll)
                /\ IF wj + 1 < MolNAtoms(sys, wi)
                   THEN wj' = wj + 1 /\ wi' = wi /\ wpc' = "atom"
                   ELSE wj' = wj + 1 /\ wi' = wi + 1 /\ wpc' = "mol"
                /\ werr' = werr
    /\ UNCHANGED <<sys, res_name, file, opened, rvars>>

\* lines 175-179.  `sys.box_vectors == None` on an array is False under the
\* numpy releases that compare an array with None as a whole, and an array of
\* booleans, whose truth value `if` refuses with a ValueError, under those that
\* compare element by element: either may be installed.
WriteBoxLine(keepAll) ==
    /\ wpc = "mol"
    /\ wi = NMol(sys)
    /\ IF sys.box_vectors = None
       THEN /\ WRaise(BoxMessage)
            /\ UNCHANGED wlines
       ELSE \/ /\ wlines' = Appended(wlines, BoxText(sys.box_vectors), keepAll)
               /\ wpc' = "flush"
               /\ werr' = werr
            \/ /\ WRaise("The truth value of an array is ambiguous")
               /\ UNCHANGED wlines
    /\ UNCHANGED <<sys, wi, wj, at_n, res_name, file, opened, rvars>>

\* lines 184-187
WriteFile ==
    /\ wpc = "flush"
    /\ opened' = TRUE
    /\ file' = WithNewlines(wlines)
    /\ wpc' = "done"
    /\ UNCHANGED <<sys, wi, wj, at_n, res_name, wlines, werr, rvars>>

\* --------------------------------------------------------- parse_gro_lines
Outcome(a, ret, val) == [arg |-> a, ret |-> ret, val |-> val]

RRaise(a, exc) ==
    /\ rpc' = "raised"
    /\ results' = Append(results, Outcome(a, "raise", [kind |-> "exception", name |-> exc]))

\* lines 69-74: both pops; an IndexError or ValueError leaves the list as the
\* pops done so far made it
ParseHeader ==
    /\ rpc = "call"
    /\ arg' = lines
    /\ IF Len(lines) = 0
       THEN /\ RRaise(lines, "IndexError")
            /\ UNCHANGED <<lines, it, datalist, box_vectors>>
       ELSE IF Len(lines) = 1
       THEN /\ lines' = <<>>
            /\ RRaise(lines, "IndexError")
            /\ UNCHANGED <<it, datalist, box_vectors>>
       ELSE /\ lines' = Tail(Tail(lines))
            /\ IF ~IntOk(lines[2])
               THEN /\ RRaise(lines, "ValueError")
                    /\ UNCHANGED <<it, datalist, box_vectors>>
               ELSE /\ it' = 0
                    /\ datalist' = <<>>
                    /\ box_vectors' = Unbound
                    /\ rpc' = "loop"
                    /\ results' = results
    /\ UNCHANGED wvars

\* lines 75-100: a turn of the loop on an atom line
ParseAtomLine ==
    /\ rpc = "loop"
    /\ it < Len(lines)
    /\ IsAtomLine(lines[it + 1])
    /\ IF AtomFieldsOk(lines[it + 1])
       THEN /\ datalist' = Append(datalist, AtomRecord(lines[it + 1]))
            /\ it' = it + 1
            /\ UNCHANGED <<rpc, results>>
       ELSE /\ RRaise(arg, "ValueError")
            /\ UNCHANGED <<it, datalist>>
    /\ UNCHANGED <<lines, arg, box_vectors, wvars>>

\* lines 75-79, 101-105: the turn of the loop on any other line, and the break
ParseBoxLine ==
    /\ rpc = "loop"
    /\ it < Len(lines)
    /\ ~IsAtomLine(lines[it + 1])
    /\ IF BoxFieldsOk(lines[it + 1])
       THEN /\ box_vectors' = BoxOf(lines[it + 1])
            /\ rpc' = "assemble"
            /\ UNCHANGED results
       ELSE /\ RRaise(arg, "ValueError")
            /\ UNCHANGED box_vectors
    /\ UNCHANGED <<lines, arg, it, datalist, wvars>>

\* lines 107-144, reached by the break or by the end of the list; reading
\* box_vectors at line 140 raises UnboundLocalError when no box line was read
ParseAssemble ==
    /\ \/ rpc = "assemble"
       \/ rpc = "loop" /\ it = Len(lines)
    /\ IF box_vectors = Unbound
       THEN RRaise(arg, "UnboundLocalError")
       ELSE /\ rpc' = "returned"
            /\ results' = Append(results,
                                 Outcome(arg, "return", Assemble(datalist, box_vectors)))
    /\ UNCHANGED <<lines, arg, it, datalist, box_vectors, wvars>>

\* the caller hands the same list object to parse_gro_lines once more
CallAgain ==
    /\ rpc \in {"returned", "raised"}
    /\ sys = NoSystem
    /\ Len(results) < MaxCalls
    /\ rpc' = "call"
    /\ UNCHANGED <<lines, arg, it, datalist, box_vectors, results, wvars>>

\* GromacsIO.read('system') of the file write_gro wrote: lines 55-59
HandlerRead ==
    /\ wpc = "done"
    /\ rpc = "idle"
    /\ lines' = file
    /\ rpc' = "call"
    /\ UNCHANGED <<arg, it, datalist, box_vectors, results, wvars>>

\* ----------------------------------------------------------------- inputs
SeqsUpTo(S, n) == UNION {[1..m -> S] : m \in 0..n}

RECURSIVE Sum(_)
Sum(q) == IF q = <<>> THEN 0 ELSE Head(q) + Sum(Tail(q))

Positions == <<<<123400, 0, -33600>>, <<62500, 94000, -400>>, <<100000, 0, 0>>>>

\* atom lines as GROMACS writes them, columns as in section "gro" of its manual
PlainAtom(molidx, moltyp, attyp, atidx, r) ==
    AtomText(molidx, moltyp, attyp, atidx, r) \o <<NL>>

VelAtom(molidx, moltyp, attyp, atidx, r, v) ==
    AtomText(molidx, moltyp, attyp, atidx, r)
        \o FloatField(v[1], 8, 4) \o FloatField(v[2], 8, 4) \o FloatField(v[3], 8, 4)
        \o <<NL>>

GivenAtoms ==
    {PlainAtom(1, SOL, OW, 1, Positions[1]),
     VelAtom(2, SOL, HW1, 2, Positions[2], <<1234500, -500000, 0>>),
     PlainAtom(1, NA, NA, 3, Positions[3])}

BoxA == Diag(1234567, 1000000, 2500004)
BoxWide == Diag(1000000000, 1000000000, 1000000000)

Token(v) == Spaces(3) \o FixedStr(v, 5)

GivenTails ==
    {BoxText(Diag(1000000, 1000000, 1000000)) \o <<NL>>,
     BoxText(BoxA) \o <<NL>>,
     <<NL>>,
     Token(1000000) \o <<NL>>,
     Token(1000000) \o Token(1000000) \o <<NL>>,
     Token(1000000) \o Token(1000000) \o Token(1000000) \o Token(1000000) \o <<NL>>,
     Token(1000000) \o <<" ", " ", " ", "x">> \o Token(1000000) \o <<NL>>,
     PlainAtom(2, SOL, OW, 4, Positions[1]),
     <<" ", " ", " ", " ", "x">> \o Slice(PlainAtom(1, SOL, OW, 1, Positions[1]), 5, 45)}

\* what follows the first line after the atom records: lines the loop never
\* reaches unless that first line was one more atom record
GivenRest ==
    {BoxText(Diag(1000000, 1000000, 1000000)) \o <<NL>>,
     PlainAtom(2, SOL, OW, 4, Positions[1])}

Tails ==
    {<<>>} \cup {<<t>> \o rest : t \in GivenTails,
                                 rest \in SeqsUpTo(GivenRest, MaxTail - 1)}

\* the lists of lines handed to parse_gro_lines by a caller
GivenLists ==
    {<<TitleText \o <<NL>>, CountText(Len(atoms)) \o <<NL>>>> \o atoms \o tail :
        atoms \in SeqsUpTo(GivenAtoms, MaxAtoms), tail \in Tails}

\* the systems handed to write_gro: molecules of shape[i] atoms, the export
\* entries of the molecules in noMol and of the atoms in noAtom missing
Offsets(shape) == [i \in 1..Len(shape) |-> Sum(SubSeq(shape, 1, i - 1))]

GivenSystem(shape, noMol, noAtom, bv) ==
    LET n == Sum(shape)
        types == [k \in 1..n |-> IF k % 2 = 1 THEN OW ELSE HW1]
    IN  FromArrays([k \in 1..n |-> Positions[(k % 3) + 1]],
                   Offsets(shape),
                   [k \in 1..n |-> GroToCl(types[k])],
                   [k \in 1..n |-> IF k \in noAtom THEN EmptyDict
                                   ELSE Dict("grotype", types[k])],
                   [i \in 1..Len(shape) |->
                       IF i \in noMol THEN EmptyDict
                       ELSE Dict("groname", IF i % 2 = 1 THEN SOL ELSE NA)],
                   [i \in 1..Len(shape) |->
                       MakeFormula([j \in 1..shape[i] |->
                                       GroToCl(types[Offsets(shape)[i] + j])])],
                   bv)

GivenSystems ==
    {GivenSystem(shape, noMol, noAtom, bv) :
        shape \in SeqsUpTo(1..MaxMolAtoms, MaxMol),
        noMol \in {m \in SUBSET (1..MaxMol) : Cardinality(m) <= MaxMissing},
        noAtom \in {m \in SUBSET (1..(MaxMol * MaxMolAtoms)) :
                       Cardinality(m) <= MaxMissing},
        bv \in {None, BoxA, BoxWide}}

\* ------------------------------------------------------------ specifications
WriterIdle ==
    /\ wi = 0
    /\ wj = 0
    /\ at_n = 0
    /\ res_name = <<>>
    /\ wlines = <<>>
    /\ werr = NoMessage
    /\ file = OldFile
    /\ opened = FALSE

ReaderIdle ==
    /\ arg = <<>>
    /\ it = 0
    /\ datalist = <<>>
    /\ box_vectors = Unbound
    /\ results = <<>>

\* a caller with a list of lines, or a GromacsIO handler about to write a system
Init ==
    /\ WriterIdle
    /\ ReaderIdle
    /\ \/ /\ sys = NoSystem
          /\ wpc = "idle"
          /\ lines \in GivenLists
          /\ rpc = "call"
       \/ /\ sys \in GivenSystems
          /\ wpc = "begin"
          /\ lines = <<>>
          /\ rpc = "idle"

WriteStart == WriteBegin(TRUE)
WriteAtom == WriteAtomLine(TRUE)
WriteBox == WriteBoxLine(TRUE)

Next ==
    \/ WriteStart
    \/ WriteMolecule
    \/ WriteAtom
    \/ WriteBox
    \/ WriteFile
    \/ HandlerRead
    \/ ParseHeader
    \/ ParseAtomLine
    \/ ParseBoxLine
    \/ ParseAssemble
    \/ CallAgain

Spec == Init /\ [][Next]_vars

\* write_gro on systems of BigCount atoms, up to the write of the file
InitLong ==
    /\ WriterIdle
    /\ ReaderIdle
    /\ sys \in {UniformSystem(1, BigCount), UniformSystem(BigCount, 1)}
    /\ wpc = "begin"
    /\ lines = <<>>
    /\ rpc = "idle"

LongStart == WriteBegin(FALSE)
LongAtom == WriteAtomLine(FALSE)
LongBox == WriteBoxLine(FALSE)

NextLong ==
    \/ LongStart
    \/ WriteMolecule
    \/ LongAtom
    \/ LongBox

SpecLong == InitLong /\ [][NextLong]_vars

\* ------------------------------------------------------------------- claims
Calls == 1..Len(results)

Returned(k) == results[k].ret = "return"

\* the first line after the two header lines whose length is neither 45 nor
\* 69, as a position in the list handed to the call; 0 when there is none
FirstOther(a) ==
    LET others == {k \in 3..Len(a) : Len(a[k]) # 45 /\ Len(a[k]) # 69}
    IN  IF others = {} THEN 0 ELSE Min(others)

\* the call got past its two header lines
HeaderRead(a) == Len(a) >= 2 /\ IntOk(a[2])

\* every line between the header and position b converts as an atom record
AtomsConvert(a, b) == \A k \in 3..(b - 1) : AtomFieldsOk(a[k])

\* the molecule indices of the records of a returned call, in file order
MolIdxOf(a) == [k \in 1..(FirstOther(a) - 3) |-> IntVal(Slice(a[k + 2], 0, 5))]

\* the indices i with i = 0 or a[i] # a[i-1], increasing
RunStarts(a) == Sorted({i \in 0..(Len(a) - 1) : i = 0 \/ a[i + 1] # a[i]})

\* C1: the molecule start offsets of every returned model are exactly the
\* indices where the molecule index differs from the previous record's (the
\* first record included), in increasing order.
C1_OffsetsAreRunStarts ==
    \A k \in Calls :
        Returned(k) =>
            results[k].val.mol_indices = RunStarts(MolIdxOf(results[k].arg))

\* the half-open atom ranges the formula loop of a returned call went through
RangesOf(k) ==
    MolRanges(results[k].val.mol_indices, Len(results[k].val.r_array))

\* C8: the per-molecule ranges [start, next start or end) of every returned
\* model partition the atom indices 0..N-1: each range is non-empty, each atom
\* is in exactly one range, and each molecule's groname is the molecule name of
\* the record at the start of its range, whatever the order of the molecule
\* indices.
C8_RangesPartitionAtoms ==
    \A k \in Calls :
        Returned(k) =>
            LET m == results[k].val
                a == results[k].arg
                rg == RangesOf(k)
            IN  /\ \A i \in 1..Len(rg) : rg[i][1] < rg[i][2]
                /\ \A n \in 0..(Len(m.r_array) - 1) :
                      Cardinality({i \in 1..Len(rg) :
                                      rg[i][1] <= n /\ n < rg[i][2]}) = 1
                /\ \A i \in 1..Len(rg) :
                      m.mol_export[i]["groname"]
                          = Strip(Slice(a[rg[i][1] + 3], 5, 10))

\* a title line, an atom-count line and no atom line: nothing more, or one box
\* line
NoAtomInput(a) ==
    /\ HeaderRead(a)
    /\ \/ Len(a) = 2
       \/ /\ Len(a) = 3
          /\ Len(a[3]) # 45 /\ Len(a[3]) # 69
          /\ Len(Split(a[3])) = 3
          /\ \A t \in 1..3 : FloatOk(Split(a[3])[t])

\* C6: a call on a title line, an atom-count line and no atom line returns an
\* empty model (no atom, no molecule) without error, with one box line after
\* the header and with nothing after it.
C6_NoAtomsGivesEmptyModel ==
    \A k \in Calls :
        NoAtomInput(results[k].arg) =>
            /\ Returned(k)
            /\ results[k].val.r_array = <<>>
            /\ results[k].val.mol_indices = <<>>

\* C10: parse_gro_lines leaves the caller's list as it found it, and a second
\* call on the same list object gives what the first call gave.
C10_CallLeavesListAlone ==
    /\ (sys = NoSystem /\ rpc \in {"returned", "raised"}) => lines = results[1].arg
    /\ \A k \in Calls : results[k] = results[1]

\* C4: after the two header lines, a line is read as an atom record if and
\* only if its length is 45 or 69; the first line of another length is read
\* as the box line and ends the call, so that the model returned is the one
\* made of the lines up to that line alone.
C4_FirstOtherLengthEndsParsing ==
    \A k \in Calls :
        LET a == results[k].arg
            b == FirstOther(a)
        IN  HeaderRead(a) =>
              /\ Returned(k) => b # 0
              /\ (b # 0 /\ AtomsConvert(a, b) /\ BoxFieldsOk(a[b])) =>
                    /\ Returned(k)
                    /\ results[k].val =
                           Assemble([n \in 1..(b - 3) |-> AtomRecord(a[n + 2])],
                                    BoxOf(a[b]))
                    /\ Len(results[k].val.r_array) = b - 3

C4_Witness ==
    \E k \in Calls :
        LET a == results[k].arg
            b == FirstOther(a)
        IN  /\ Returned(k)
            /\ b # 0 /\ b < Len(a)
            /\ \E n \in 3..(b - 1) : Len(a[n]) = 69
            /\ \E n \in 3..(b - 1) : Len(a[n]) = 45

\* C5: when the line that ends the atom records splits on whitespace into
\* exactly three numeric tokens a, b, c, the model's box is diag(a, b, c) with
\* zeros off the diagonal; with any other number of tokens, or a token that is
\* no number, the call raises and returns no model.
C5_BoxLineThreeFloatsOrError ==
    \A k \in Calls :
        LET a == results[k].arg
            b == FirstOther(a)
        IN  (HeaderRead(a) /\ b # 0 /\ AtomsConvert(a, b)) =>
              LET tok == Split(a[b])
              IN  IF Len(tok) = 3 /\ \A t \in 1..3 : FloatOk(tok[t])
                  THEN /\ Returned(k)
                       /\ \A i, j \in 1..3 :
                             results[k].val.box_vectors[i][j]
                                 = IF i = j THEN FloatVal(tok[i]) ELSE 0
                  ELSE /\ results[k].ret = "raise"
                       /\ results[k].val.kind = "exception"

C5_Witness ==
    \E k \in Calls :
        LET a == results[k].arg
            b == FirstOther(a)
        IN  /\ HeaderRead(a) /\ b > 3 /\ AtomsConvert(a, b)
            /\ Len(Split(a[b])) = 4
            /\ results[k].ret = "raise"

\* C2: when write_gro has written a system (box vectors set, groname and
\* grotype present everywhere), parsing the lines written succeeds and gives
\* as many atoms, the positions rounded to 3 decimals in the same order, and
\* the diagonal of the box rounded to 5 decimals.
C2_RoundTrip ==
    (sys # NoSystem /\ Len(results) >= 1) =>
        /\ Returned(1)
        /\ Len(results[1].val.r_array) = NAtoms(sys)
        /\ \A k \in 1..NAtoms(sys) : \A c \in 1..3 :
              results[1].val.r_array[k][c] = RoundTo(sys.r_array[k][c], 3) * 1000
        /\ \A i \in 1..3 :
              results[1].val.box_vectors[i][i]
                  = RoundTo(sys.box_vectors[i][i], 5) * 10

\* the export entries present
MolHasName(i) == HasKey(MolExport(sys, i), "groname")
AtomHasType(n) == HasKey(AtomExport(sys, n), "grotype")

\* something write_gro needs is missing from the system
SomethingMissing ==
    \/ \E i \in 0..(NMol(sys) - 1) : ~MolHasName(i)
    \/ \E n \in 0..(NAtoms(sys) - 1) : ~AtomHasType(n)
    \/ sys.box_vectors = None

\* C3: when write_gro fails because a groname, a grotype or the box vectors
\* are missing, it has not opened the destination, which is as it was; the
\* message names the item that is missing, the first one in the order of the
\* molecules and their atoms, and the box vectors after all of them.
C3_FailureLeavesFileAlone ==
    sys # NoSystem =>
        /\ SomethingMissing => (~opened /\ file = OldFile /\ wpc # "done")
        /\ wpc = "raised" => (~opened /\ file = OldFile)
        /\ (wpc = "raised" /\ werr = GronameMessage) =>
              /\ ~MolHasName(wi)
              /\ \A i \in 0..(wi - 1) : MolHasName(i)
              /\ \A n \in 0..(MolIndex(sys, wi) - 1) : AtomHasType(n)
        /\ (wpc = "raised" /\ werr = GrotypeMessage) =>
              /\ ~AtomHasType(MolIndex(sys, wi) + wj)
              /\ \A i \in 0..wi : MolHasName(i)
              /\ \A n \in 0..(MolIndex(sys, wi) + wj - 1) : AtomHasType(n)
        /\ (wpc = "raised" /\ werr = BoxMessage) =>
              /\ sys.box_vectors = None
              /\ \A i \in 0..(NMol(sys) - 1) : MolHasName(i)
              /\ \A n \in 0..(NAtoms(sys) - 1) : AtomHasType(n)
        /\ (wpc = "raised" /\ SomethingMissing) =>
              werr \in {GronameMessage, GrotypeMessage, BoxMessage}

C3_Witness ==
    /\ sys # NoSystem
    /\ wpc = "raised"
    /\ werr = GrotypeMessage
    /\ wi = 1 /\ wj = 1
    /\ Len(wlines) = 5
    /\ file = OldFile

\* the atom line appended last, while the atom loop runs
AtomJustWritten == sys # NoSystem /\ at_n >= 1 /\ wpc \in {"atom", "mol", "raised"}

LastLine == wlines[Len(wlines)]

\* the five characters before the three coordinates, and what is left of them
SerialOf(l) == Slice(l, Len(l) - 29, Len(l) - 24)

BeforeSerial(l) == Slice(l, 0, Len(l) - 29)

\* the residue number, residue name and atom name fields of the at_n-th line
NameFields ==
    LET res_n == ((at_n - 1) \div sys.per) + 1
    IN  RJust(IntStr(res_n), 5) \o LJust(sys.groname, 5) \o RJust(sys.grotype, 5)

SerialHoldsModulo ==
    AtomJustWritten =>
        /\ BeforeSerial(LastLine) = NameFields
        /\ IntOk(SerialOf(LastLine))
        /\ IntVal(SerialOf(LastLine)) = at_n % 99999

\* C7: the serial field of the k-th atom line written holds k mod 99999 in 5
\* characters, and the line of atom 100,001 has the serial field `00002`.
C7_SerialFieldZeroPadded ==
    /\ SerialHoldsModulo
    /\ (AtomJustWritten /\ at_n = 100001) =>
          SerialOf(LastLine) = <<"0", "0", "0", "0", "2">>

\* C7 as amended: the serial field of the k-th atom line written holds k mod
\* 99999 in 5 characters, and the line of atom 100,001 has the serial field
\* `    2`, right-justified with spaces.
C7_SerialFieldWraps ==
    /\ SerialHoldsModulo
    /\ (AtomJustWritten /\ at_n = 100001) =>
          SerialOf(LastLine) = <<" ", " ", " ", " ", "2">>

C7_Witness ==
    /\ AtomJustWritten
    /\ at_n = 100001
    /\ IntVal(SerialOf(LastLine)) = 2

\* C9: every atom line write_gro emits has 44 characters before its newline,
\* whatever the number of molecules and atoms, and the box line with its
\* newline has neither 45 nor 69 characters.
C9_AtomLinesAre45Long ==
    /\ AtomJustWritten => Len(LastLine \o <<NL>>) = 45
    /\ wpc = "flush" => Len(LastLine \o <<NL>>) \notin {45, 69}
====
